---- MODULE Spec2Model ----
(***************************************************************************)
(* Model of the NILPOC chain indexer (src/python/indexer/indexer.py).      *)
(*                                                                         *)
(* One ingestion pass (index_once) walks the monitored contracts in order, *)
(* fetches each contract's logs for a block range, skips unrecognised      *)
(* logs, decodes the rest, inserts a chain_events row (ON CONFLICT DO      *)
(* NOTHING) and calls upsert_current, all inside one database transaction  *)
(* that is committed at the end of the pass.                               *)
(*                                                                         *)
(* The chain is an append-only sequence of logs.  The contracts that emit  *)
(* them are not part of the indexer; MineBlock models them from the entity *)
(* lifecycles of the data model (a deal is created once, delivered, then   *)
(* settled or refunded; a grant is withdrawn or refunded, never both).     *)
(* Every block holds one transaction, so tx_hash is the block number.      *)
(***************************************************************************)
EXTENDS Integers, Sequences, FiniteSets, TLC

VARIABLES
    chain,       \* the logs the node has, in chain order
    db,          \* committed, externally visible tables
    tx,          \* tables as seen inside the open transaction
    pc,          \* "idle" (no pass, last one committed) | "run" | "failed"
    range,       \* <<from_block, to_block>> of the running pass
    ci,          \* index into ContractOrder of the contract being processed
    logs,        \* result of get_logs for that contract
    li,          \* index into logs of the next log of the for loop
    now,         \* NOW() of the open transaction (counts the passes begun)
    last,        \* what the last step did: the event handled, the row counts of
                 \* its two statements, whether upsert_current was called, and,
                 \* on an abort, whether uncommitted writes were discarded
    scanned,     \* the block each get_logs call of the running pass was
                 \* answered up to, one entry per contract scanned so far
    amount,      \* test_fee_split_never_negative: the amount drawn
    fee_bps,     \* ... the fee rate drawn, in basis points
    fee,         \* ... the fee computed, -1 before the test body ran
    net,         \* ... the net amount computed
    workers      \* two indexer processes run side by side on one database:
                 \* for each its position, range, logs, NOW() and the rows
                 \* its open transaction has written

fee_vars == <<amount, fee_bps, fee, net>>

vars == <<chain, db, tx, pc, range, ci, logs, li, now, last, scanned, fee_vars, workers>>

(***************************************************************************)
(* Bounds of the model.                                                    *)
(***************************************************************************)
MaxLogs == 3        \* logs on the chain
MaxPasses == 2      \* passes begun
MaxId == 1          \* entity ids are 1..MaxId
MaxAmount == 2      \* token amounts are 1..MaxAmount
MaxTime == 9        \* the times events carry are at most this
MaxIrregular == 1   \* logs the decoder skips or rejects (no topics, an
                    \* unregistered signature, a payload that does not match the ABI)
MaxFeeAmount == 8   \* the fee test draws amounts 1..MaxFeeAmount and a few around BPS

(***************************************************************************)
(* Program constants.                                                      *)
(***************************************************************************)
ChainId == 0
Latest == 0         \* TO_BLOCK = "latest"; the blocks of the chain count from 1
BPS == 10000

ContractOrder == <<"DealEngine", "DeferredVault", "PayoutRouter", "ReceiptNFT">>

ContractNames == {ContractOrder[i] : i \in 1..Len(ContractOrder)}

\* Web3.to_checksum_address(addr): the environment gives each contract its
\* own address; the checksum form is a tagged copy of it.
to_checksum_address(name) == <<"0x", name>>

\* w3.keccak(text = "Name(type,...)"): one identifier per event schema.
keccak(text) == <<"keccak", text>>

EventNames(c) ==
    CASE c = "DealEngine" -> {"DealCreated", "DealDelivered", "DealSettled", "DealRefunded"}
      [] c = "DeferredVault" -> {"GrantCreated", "GrantAttested", "GrantWithdrawn", "GrantRefunded"}
      [] c = "PayoutRouter" -> {"PayoutExecuted"}
      [] c = "ReceiptNFT" -> {"ReceiptMinted"}

\* load_event_abis: signature -> event abi (here its name), per contract.
load_event_abis(c) == [s \in {keccak(n) : n \in EventNames(c)} |-> s[2]]

EVENT_ABIS == [c \in ContractNames |-> load_event_abis(c)]

UnknownSig == keccak("Transfer")

(***************************************************************************)
(* Value conversions of the projector.                                     *)
(***************************************************************************)
HexDigits == <<"0", "1", "2", "3", "4", "5", "6", "7", "8", "9",
               "a", "b", "c", "d", "e", "f">>

RECURSIVE BytesHex(_)
\* bytes.hex(): two lowercase digits per byte, no 0x prefix.
BytesHex(b) ==
    IF b = <<>> THEN <<>>
    ELSE <<HexDigits[(Head(b) \div 16) + 1], HexDigits[(Head(b) % 16) + 1]>>
         \o BytesHex(Tail(b))

\* v.hex() if hasattr(v, "hex") else str(v), applied to a bytes value.
HexOf(v) == BytesHex(v)

NULL == <<"NULL">>

Ids == 1..MaxId
Amounts == 1..MaxAmount
TermsHash == <<171, 205>>
EvidenceHash == <<171>>
AttestationHash == <<239>>
RefHash == <<1>>
OrderHash == <<2>>
Sponsor == "0xS"
Party == "0xP"
Token == "0xT"
Deadline == MaxTime

EmptyTables ==
    [chain_events |-> {}, deals |-> {}, grants |-> {}, payouts |-> {}, receipts |-> {}]

\* The two processes of a concurrent run, neither started.
Workers == {"a", "b"}

IdleWorker ==
    [pc |-> "idle", range |-> <<0, 0>>, logs |-> <<>>, li |-> 0, ts |-> 0,
     writes |-> EmptyTables]

NoLast == [event |-> "none", inserted |-> 0, projected |-> FALSE, rowcount |-> 0,
           dirty |-> FALSE]

Init ==
    /\ chain = <<>>
    /\ db = EmptyTables
    /\ tx = EmptyTables
    /\ pc = "idle"
    /\ range = <<0, 0>>
    /\ ci = 0
    /\ logs = <<>>
    /\ li = 0
    /\ now = 0
    /\ last = NoLast
    /\ scanned = <<>>
    /\ amount = 1
    /\ fee_bps = 0
    /\ fee = -1
    /\ net = -1
    /\ workers = [w \in Workers |-> IdleWorker]

(***************************************************************************)
(* The chain: what the monitored contracts have emitted so far.            *)
(***************************************************************************)
ChainHead == IF chain = <<>> THEN 0 ELSE chain[Len(chain)].blockNumber

\* The names of the events on chain `ch` that carry entity id `id` in `field`.
Emitted(ch, field, id) ==
    {ch[i].name : i \in {j \in 1..Len(ch) :
        /\ field \in DOMAIN ch[j].args
        /\ ch[j].args[field] = id}}

DealArgs(name, d, a) ==
    CASE name = "DealCreated" ->
            [dealId |-> d, sponsor |-> Sponsor, athlete |-> Party, token |-> Token,
             amount |-> a, deadline |-> Deadline, termsHash |-> TermsHash]
      [] name = "DealDelivered" ->
            [dealId |-> d, evidenceHash |-> EvidenceHash, deliveredAt |-> Deadline - 1]
      [] OTHER -> [dealId |-> d]

GrantArgs(name, g, a) ==
    CASE name = "GrantCreated" ->
            [grantId |-> g, sponsor |-> Sponsor, beneficiary |-> Party, token |-> Token,
             amount |-> a, unlockTime |-> Deadline, termsHash |-> TermsHash]
      [] name = "GrantAttested" -> [grantId |-> g, attestationHash |-> AttestationHash]
      [] OTHER -> [grantId |-> g]

PayoutArgs(p, a) ==
    [payoutId |-> p, ref |-> RefHash, payer |-> Sponsor, token |-> Token,
     amount |-> a, splitId |-> 1, at |-> Deadline]

ReceiptArgs(t, a) ==
    [tokenId |-> t, orderHash |-> OrderHash, buyer |-> Party, seller |-> Sponsor,
     token |-> Token, price |-> a, platformFee |-> a - 1, tokenURI |-> "uri"]

\* What a contract may emit next, given what it has emitted.  An entity is
\* created once; payouts and receipts may repeat an id with other values,
\* which is the case the write-once rules exist for.
DealEngineEmits(ch, name, d) ==
    LET seen == Emitted(ch, "dealId", d) IN
    CASE name = "DealCreated" -> seen = {}
      [] name = "DealDelivered" -> seen = {"DealCreated"}
      [] OTHER -> "DealCreated" \in seen /\ seen \cap {"DealSettled", "DealRefunded"} = {}

DeferredVaultEmits(ch, name, g) ==
    LET seen == Emitted(ch, "grantId", g) IN
    CASE name = "GrantCreated" -> seen = {}
      [] name = "GrantAttested" ->
            /\ "GrantCreated" \in seen
            /\ seen \cap {"GrantAttested", "GrantWithdrawn", "GrantRefunded"} = {}
      [] OTHER -> "GrantCreated" \in seen /\ seen \cap {"GrantWithdrawn", "GrantRefunded"} = {}

IsIrregular(l) == l.malformed \/ l.topics = <<>> \/ l.topics[1] = UnknownSig

Irregulars(ch) == Cardinality({i \in 1..Len(ch) : IsIrregular(ch[i])})

\* The events of registered schemas the contracts may emit after `ch`, each
\* with a payload that matches the ABI or one that does not.  A deal or grant
\* is created once, so one amount stands for all; payouts and receipts of
\* one id come with every amount.
SchemaEvents(ch) ==
    LET ok == {[c |-> "DealEngine", name |-> x[1], args |-> DealArgs(x[1], x[2], MaxAmount)] :
                 x \in {y \in EventNames("DealEngine") \X Ids :
                          DealEngineEmits(ch, y[1], y[2])}}
              \cup
              {[c |-> "DeferredVault", name |-> x[1],
                args |-> GrantArgs(x[1], x[2], MaxAmount)] :
                 x \in {y \in EventNames("DeferredVault") \X Ids :
                          DeferredVaultEmits(ch, y[1], y[2])}}
              \cup {[c |-> "PayoutRouter", name |-> "PayoutExecuted",
                     args |-> PayoutArgs(p, a)] : p \in Ids, a \in Amounts}
              \cup {[c |-> "ReceiptNFT", name |-> "ReceiptMinted",
                     args |-> ReceiptArgs(t, a)] : t \in Ids, a \in Amounts}
    IN {[c |-> e.c, name |-> e.name, args |-> e.args, topics |-> <<keccak(e.name)>>,
         malformed |-> bad] :
          e \in ok, bad \in {b \in BOOLEAN : b => Irregulars(ch) < MaxIrregular}}

\* Logs the indexer has no schema for: anonymous, or of an unregistered event.
OtherEvents(ch) ==
    {[c |-> c, name |-> "Other", args |-> [other |-> 0], topics |-> t,
      malformed |-> FALSE] :
        c \in {n \in ContractNames : Irregulars(ch) < MaxIrregular},
        t \in {<<>>, <<UnknownSig>>}}

RawLog(e, block, index) ==
    [blockNumber |-> block,
     transactionHash |-> block,
     logIndex |-> index,
     address |-> to_checksum_address(e.c),
     topics |-> e.topics,
     name |-> e.name,
     args |-> e.args,
     malformed |-> e.malformed]

RECURSIVE Extensions(_, _, _, _)
\* The chains that extend `ch` by up to `room` more logs of block `block`.
Extensions(ch, block, index, room) ==
    IF room = 0 THEN {ch}
    ELSE {ch} \cup
         UNION {Extensions(Append(ch, RawLog(e, block, index)), block, index + 1, room - 1) :
                  e \in SchemaEvents(ch) \cup OtherEvents(ch)}

\* A block is mined: its logs become visible to get_logs together.
MineBlock ==
    /\ Len(chain) < MaxLogs
    /\ chain' \in Extensions(chain, ChainHead + 1, 0, MaxLogs - Len(chain)) \ {chain}
    /\ UNCHANGED <<db, tx, pc, range, ci, logs, li, now, last, scanned, fee_vars, workers>>

\* get_logs with toBlock taken as exclusive.
get_logs_ToExclusive(ch, from, to, addr) ==
    SelectSeq(ch, LAMBDA l : l.address = addr /\ from <= l.blockNumber /\ l.blockNumber < to)

\* The logs of the range handed over newest first.
get_logs_Reversed(ch, from, to, addr) ==
    LET s == SelectSeq(ch, LAMBDA l : /\ l.address = addr
                                      /\ from <= l.blockNumber
                                      /\ l.blockNumber <= to)
    IN [i \in 1..Len(s) |-> s[Len(s) + 1 - i]]

\* w3.eth.get_logs({fromBlock, toBlock, address}) on a chain.
get_logs(ch, from, to, addr) ==
    SelectSeq(ch, LAMBDA l : /\ l.address = addr
                             /\ from <= l.blockNumber
                             /\ (to = Latest \/ l.blockNumber <= to))

(***************************************************************************)
(* The projector: upsert_current, one operator per branch.  A table is a   *)
(* set of rows; the ON CONFLICT and WHERE clauses are spelled out.         *)
(***************************************************************************)
BytesFields == {"termsHash", "evidenceHash", "attestationHash", "ref", "orderHash"}

StrFields == {"sponsor", "athlete", "beneficiary", "token", "payer", "buyer", "seller",
              "tokenURI"}

RECURSIVE DecStr(_)
\* str(v) of a non-negative integer: its decimal digits.
DecStr(n) ==
    IF n < 10 THEN <<HexDigits[n + 1]>>
    ELSE DecStr(n \div 10) \o <<HexDigits[(n % 10) + 1]>>

\* {k: (v.hex() if hasattr(v, "hex") else str(v)) for k, v in dict(args).items()}
DecodedJson(args) ==
    [k \in DOMAIN args |->
        IF k \in BytesFields THEN HexOf(args[k])
        ELSE IF k \in StrFields THEN args[k]
        ELSE DecStr(args[k])]

\* The conflict target written as (chain_id, tx_hash).
ChainEventConflict_PerTransaction(events, chain_id, log) ==
    \E r \in events :
        /\ r.chain_id = chain_id
        /\ r.tx_hash = log.transactionHash

\* INSERT INTO chain_events ... ON CONFLICT (chain_id, tx_hash, log_index) DO NOTHING
ChainEventConflict(events, chain_id, log) ==
    \E r \in events :
        /\ r.chain_id = chain_id
        /\ r.tx_hash = log.transactionHash
        /\ r.log_index = log.logIndex

InsertChainEvent(events, chain_id, addr, sig, name, log) ==
    IF ChainEventConflict(events, chain_id, log) THEN events
    ELSE events \cup
         {[chain_id |-> chain_id,
           block_number |-> log.blockNumber,
           tx_hash |-> log.transactionHash,
           log_index |-> log.logIndex,
           contract_address |-> addr,
           event_sig |-> sig,
           event_name |-> name,
           topics |-> log.topics,
           decoded |-> DecodedJson(log.args)]}

DealCreated(deals, chain_id, args, ts) ==
    IF \E r \in deals : r.chain_id = chain_id /\ r.deal_id = args.dealId
    THEN {IF r.chain_id = chain_id /\ r.deal_id = args.dealId
          THEN [r EXCEPT !.sponsor = args.sponsor,
                         !.athlete = args.athlete,
                         !.token = args.token,
                         !.amount = args.amount,
                         !.deadline = args.deadline,
                         !.terms_hash = HexOf(args.termsHash),
                         !.status = "FUNDED",
                         !.updated_at = ts]
          ELSE r : r \in deals}
    ELSE deals \cup
         {[chain_id |-> chain_id, deal_id |-> args.dealId, sponsor |-> args.sponsor,
           athlete |-> args.athlete, token |-> args.token, amount |-> args.amount,
           deadline |-> args.deadline, terms_hash |-> HexOf(args.termsHash),
           evidence_hash |-> NULL, delivered_at |-> NULL, status |-> "FUNDED",
           updated_at |-> ts]}

\* DealDelivered written as an upsert: a missing row is created.
DealDelivered_Upserts(deals, chain_id, args, ts) ==
    IF \E r \in deals : r.chain_id = chain_id /\ r.deal_id = args.dealId
    THEN {IF r.chain_id = chain_id /\ r.deal_id = args.dealId
          THEN [r EXCEPT !.evidence_hash = HexOf(args.evidenceHash),
                         !.delivered_at = args.deliveredAt,
                         !.status = "DELIVERED",
                         !.updated_at = ts]
          ELSE r : r \in deals}
    ELSE deals \cup
         {[chain_id |-> chain_id, deal_id |-> args.dealId, sponsor |-> NULL,
           athlete |-> NULL, token |-> NULL, amount |-> NULL, deadline |-> NULL,
           terms_hash |-> NULL, evidence_hash |-> HexOf(args.evidenceHash),
           delivered_at |-> args.deliveredAt, status |-> "DELIVERED",
           updated_at |-> ts]}

DealDelivered(deals, chain_id, args, ts) ==
    {IF r.chain_id = chain_id /\ r.deal_id = args.dealId
     THEN [r EXCEPT !.evidence_hash = HexOf(args.evidenceHash),
                    !.delivered_at = args.deliveredAt,
                    !.status = "DELIVERED",
                    !.updated_at = ts]
     ELSE r : r \in deals}

\* DealSettled with the amount left as it was.
DealSettled_KeepsAmount(deals, chain_id, args, ts) ==
    {IF r.chain_id = chain_id /\ r.deal_id = args.dealId
     THEN [r EXCEPT !.status = "SETTLED", !.updated_at = ts]
     ELSE r : r \in deals}

DealSettled(deals, chain_id, args, ts) ==
    {IF r.chain_id = chain_id /\ r.deal_id = args.dealId
     THEN [r EXCEPT !.amount = 0, !.status = "SETTLED", !.updated_at = ts]
     ELSE r : r \in deals}

DealRefunded(deals, chain_id, args, ts) ==
    {IF r.chain_id = chain_id /\ r.deal_id = args.dealId
     THEN [r EXCEPT !.amount = 0, !.status = "REFUNDED", !.updated_at = ts]
     ELSE r : r \in deals}

\* GrantCreated with the conflict clause of DealCreated: the row's created
\* fields are overwritten from the event.
GrantCreated_Overwrites(grants, chain_id, args, ts) ==
    IF \E r \in grants : r.chain_id = chain_id /\ r.grant_id = args.grantId
    THEN {IF r.chain_id = chain_id /\ r.grant_id = args.grantId
          THEN [r EXCEPT !.sponsor = args.sponsor,
                         !.beneficiary = args.beneficiary,
                         !.token = args.token,
                         !.amount = args.amount,
                         !.unlock_time = args.unlockTime,
                         !.terms_hash = HexOf(args.termsHash),
                         !.updated_at = ts]
          ELSE r : r \in grants}
    ELSE grants \cup
         {[chain_id |-> chain_id, grant_id |-> args.grantId, sponsor |-> args.sponsor,
           beneficiary |-> args.beneficiary, token |-> args.token,
           amount |-> args.amount, unlock_time |-> args.unlockTime,
           terms_hash |-> HexOf(args.termsHash), attested |-> FALSE,
           attestation_hash |-> NULL, withdrawn |-> FALSE, refunded |-> FALSE,
           updated_at |-> ts]}

\* The conflict branch written as a replacement of the row (REPLACE INTO).
GrantCreated_ResetsFlags(grants, chain_id, args, ts) ==
    {r \in grants : ~(r.chain_id = chain_id /\ r.grant_id = args.grantId)} \cup
    {[chain_id |-> chain_id, grant_id |-> args.grantId, sponsor |-> args.sponsor,
      beneficiary |-> args.beneficiary, token |-> args.token,
      amount |-> args.amount, unlock_time |-> args.unlockTime,
      terms_hash |-> HexOf(args.termsHash), attested |-> FALSE,
      attestation_hash |-> NULL, withdrawn |-> FALSE, refunded |-> FALSE,
      updated_at |-> ts]}

GrantCreated(grants, chain_id, args, ts) ==
    IF \E r \in grants : r.chain_id = chain_id /\ r.grant_id = args.grantId
    THEN {IF r.chain_id = chain_id /\ r.grant_id = args.grantId
          THEN [r EXCEPT !.updated_at = ts]
          ELSE r : r \in grants}
    ELSE grants \cup
         {[chain_id |-> chain_id, grant_id |-> args.grantId, sponsor |-> args.sponsor,
           beneficiary |-> args.beneficiary, token |-> args.token,
           amount |-> args.amount, unlock_time |-> args.unlockTime,
           terms_hash |-> HexOf(args.termsHash), attested |-> FALSE,
           attestation_hash |-> NULL, withdrawn |-> FALSE, refunded |-> FALSE,
           updated_at |-> ts]}

GrantAttested(grants, chain_id, args, ts) ==
    {IF r.chain_id = chain_id /\ r.grant_id = args.grantId
     THEN [r EXCEPT !.attested = TRUE,
                    !.attestation_hash = HexOf(args.attestationHash),
                    !.updated_at = ts]
     ELSE r : r \in grants}

GrantWithdrawn(grants, chain_id, args, ts) ==
    {IF r.chain_id = chain_id /\ r.grant_id = args.grantId
     THEN [r EXCEPT !.withdrawn = TRUE, !.amount = 0, !.updated_at = ts]
     ELSE r : r \in grants}

\* GrantRefunded copied from GrantWithdrawn with its flag left in.
GrantRefunded_SetsBoth(grants, chain_id, args, ts) ==
    {IF r.chain_id = chain_id /\ r.grant_id = args.grantId
     THEN [r EXCEPT !.withdrawn = TRUE, !.refunded = TRUE, !.amount = 0,
                    !.updated_at = ts]
     ELSE r : r \in grants}

GrantRefunded(grants, chain_id, args, ts) ==
    {IF r.chain_id = chain_id /\ r.grant_id = args.grantId
     THEN [r EXCEPT !.refunded = TRUE, !.amount = 0, !.updated_at = ts]
     ELSE r : r \in grants}

\* PayoutExecuted with ON CONFLICT DO UPDATE: the last event wins.
PayoutExecuted_Overwrites(payouts, chain_id, args) ==
    {r \in payouts : ~(r.chain_id = chain_id /\ r.payout_id = args.payoutId)}
    \cup
    {[chain_id |-> chain_id, payout_id |-> args.payoutId, ref |-> HexOf(args.ref),
      payer |-> args.payer, token |-> args.token, amount |-> args.amount,
      split_id |-> args.splitId, executed_at |-> args.at]}

PayoutExecuted(payouts, chain_id, args) ==
    IF \E r \in payouts : r.chain_id = chain_id /\ r.payout_id = args.payoutId
    THEN payouts
    ELSE payouts \cup
         {[chain_id |-> chain_id, payout_id |-> args.payoutId, ref |-> HexOf(args.ref),
           payer |-> args.payer, token |-> args.token, amount |-> args.amount,
           split_id |-> args.splitId, executed_at |-> args.at]}

ReceiptMinted(receipts, chain_id, args) ==
    IF \E r \in receipts : r.chain_id = chain_id /\ r.token_id = args.tokenId
    THEN receipts
    ELSE receipts \cup
         {[chain_id |-> chain_id, token_id |-> args.tokenId,
           order_hash |-> HexOf(args.orderHash), buyer |-> args.buyer,
           seller |-> args.seller, token |-> args.token, price |-> args.price,
           platform_fee |-> args.platformFee, token_uri |-> args.tokenURI]}

\* upsert_current with a PayoutExecuted rule that also closes the deal of
\* the payout's number in deals_current.
upsert_current_CrossTable(t, chain_id, event_name, args, ts) ==
    CASE event_name = "DealCreated" ->
            [t EXCEPT !.deals = DealCreated(t.deals, chain_id, args, ts)]
      [] event_name = "DealDelivered" ->
            [t EXCEPT !.deals = DealDelivered(t.deals, chain_id, args, ts)]
      [] event_name = "DealSettled" ->
            [t EXCEPT !.deals = DealSettled(t.deals, chain_id, args, ts)]
      [] event_name = "DealRefunded" ->
            [t EXCEPT !.deals = DealRefunded(t.deals, chain_id, args, ts)]
      [] event_name = "GrantCreated" ->
            [t EXCEPT !.grants = GrantCreated(t.grants, chain_id, args, ts)]
      [] event_name = "GrantAttested" ->
            [t EXCEPT !.grants = GrantAttested(t.grants, chain_id, args, ts)]
      [] event_name = "GrantWithdrawn" ->
            [t EXCEPT !.grants = GrantWithdrawn(t.grants, chain_id, args, ts)]
      [] event_name = "GrantRefunded" ->
            [t EXCEPT !.grants = GrantRefunded(t.grants, chain_id, args, ts)]
      [] event_name = "PayoutExecuted" ->
            [t EXCEPT !.payouts = PayoutExecuted(t.payouts, chain_id, args),
                      !.deals = DealSettled(t.deals, chain_id,
                                            [dealId |-> args.payoutId], ts)]
      [] event_name = "ReceiptMinted" ->
            [t EXCEPT !.receipts = ReceiptMinted(t.receipts, chain_id, args)]
      [] OTHER -> t

\* upsert_current(cur, chain_id, event_name, args); ts is the transaction's NOW().
upsert_current(t, chain_id, event_name, args, ts) ==
    CASE event_name = "DealCreated" ->
            [t EXCEPT !.deals = DealCreated(t.deals, chain_id, args, ts)]
      [] event_name = "DealDelivered" ->
            [t EXCEPT !.deals = DealDelivered(t.deals, chain_id, args, ts)]
      [] event_name = "DealSettled" ->
            [t EXCEPT !.deals = DealSettled(t.deals, chain_id, args, ts)]
      [] event_name = "DealRefunded" ->
            [t EXCEPT !.deals = DealRefunded(t.deals, chain_id, args, ts)]
      [] event_name = "GrantCreated" ->
            [t EXCEPT !.grants = GrantCreated(t.grants, chain_id, args, ts)]
      [] event_name = "GrantAttested" ->
            [t EXCEPT !.grants = GrantAttested(t.grants, chain_id, args, ts)]
      [] event_name = "GrantWithdrawn" ->
            [t EXCEPT !.grants = GrantWithdrawn(t.grants, chain_id, args, ts)]
      [] event_name = "GrantRefunded" ->
            [t EXCEPT !.grants = GrantRefunded(t.grants, chain_id, args, ts)]
      [] event_name = "PayoutExecuted" ->
            [t EXCEPT !.payouts = PayoutExecuted(t.payouts, chain_id, args)]
      [] event_name = "ReceiptMinted" ->
            [t EXCEPT !.receipts = ReceiptMinted(t.receipts, chain_id, args)]
      [] OTHER -> t

\* cur.rowcount after the statement of upsert_current (0 when no statement ran).
RowCount(t, chain_id, event_name, args) ==
    CASE event_name \in {"DealDelivered", "DealSettled", "DealRefunded"} ->
            Cardinality({r \in t.deals : r.chain_id = chain_id /\ r.deal_id = args.dealId})
      [] event_name \in {"GrantAttested", "GrantWithdrawn", "GrantRefunded"} ->
            Cardinality({r \in t.grants : r.chain_id = chain_id /\ r.grant_id = args.grantId})
      [] event_name \in {"DealCreated", "GrantCreated"} -> 1
      [] event_name = "PayoutExecuted" ->
            IF \E r \in t.payouts : r.chain_id = chain_id /\ r.payout_id = args.payoutId
            THEN 0 ELSE 1
      [] event_name = "ReceiptMinted" ->
            IF \E r \in t.receipts : r.chain_id = chain_id /\ r.token_id = args.tokenId
            THEN 0 ELSE 1
      [] OTHER -> 0

\* One iteration of the body of `for log in logs` that reaches the two writes.
StoreAndProjectLog(t, chain_id, contract_name, log, ts) ==
    LET sig == log.topics[1]
        abi_name == EVENT_ABIS[contract_name][sig]
        stored == [t EXCEPT !.chain_events =
                     InsertChainEvent(t.chain_events, chain_id,
                                      to_checksum_address(contract_name), sig, abi_name, log)]
    IN upsert_current(stored, chain_id, abi_name, log.args, ts)

Recognised(contract_name, log) ==
    log.topics # <<>> /\ log.topics[1] \in DOMAIN EVENT_ABIS[contract_name]

(***************************************************************************)
(* index_once as a function of the tables, the chain and the range: the    *)
(* tables a pass commits, or ok = FALSE when a decode error aborts it.     *)
(***************************************************************************)
RECURSIVE RunLogs(_, _, _, _, _)
RunLogs(t, chain_id, contract_name, ls, ts) ==
    IF ls = <<>> THEN [ok |-> TRUE, t |-> t]
    ELSE IF ~Recognised(contract_name, Head(ls))
         THEN RunLogs(t, chain_id, contract_name, Tail(ls), ts)
         ELSE IF Head(ls).malformed THEN [ok |-> FALSE, t |-> t]
         ELSE RunLogs(StoreAndProjectLog(t, chain_id, contract_name, Head(ls), ts),
                      chain_id, contract_name, Tail(ls), ts)

RECURSIVE RunContracts(_, _, _, _, _, _)
RunContracts(t, ch, from_block, to_block, names, ts) ==
    IF names = <<>> THEN [ok |-> TRUE, t |-> t]
    ELSE LET r == RunLogs(t, ChainId, Head(names),
                          get_logs(ch, from_block, to_block,
                                   to_checksum_address(Head(names))), ts)
         IN IF r.ok THEN RunContracts(r.t, ch, from_block, to_block, Tail(names), ts)
            ELSE r

index_once(t, ch, from_block, to_block, ts) ==
    LET r == RunContracts(t, ch, from_block, to_block, ContractOrder, ts)
    IN IF r.ok THEN r ELSE [ok |-> FALSE, t |-> t]

(***************************************************************************)
(* index_once, step by step.                                               *)
(***************************************************************************)
PassIdle == pc \in {"idle", "failed"}

ResetPass ==
    /\ range' = <<0, 0>>
    /\ ci' = 0
    /\ logs' = <<>>
    /\ li' = 0
    /\ scanned' = <<>>

\* connect_db(); db.autocommit = False; cur = db.cursor()
StartPass ==
    /\ PassIdle
    /\ now < MaxPasses
    /\ \E from_block \in 1..ChainHead, to_block \in 1..ChainHead :
        /\ from_block <= to_block
        /\ range' = <<from_block, to_block>>
    /\ pc' = "run"
    /\ tx' = db
    /\ now' = now + 1
    /\ ci' = 0
    /\ logs' = <<>>
    /\ li' = 1
    /\ last' = NoLast
    /\ scanned' = <<>>
    /\ UNCHANGED <<chain, db, fee_vars, workers>>

LoopDone == pc = "run" /\ li > Len(logs)

\* The next iteration of `for contract_name, addr in contracts.items()`.
FetchLogs ==
    /\ LoopDone
    /\ ci < Len(ContractOrder)
    /\ ci' = ci + 1
    /\ logs' = get_logs(chain, range[1], range[2], to_checksum_address(ContractOrder[ci + 1]))
    /\ li' = 1
    /\ last' = NoLast
    /\ scanned' = Append(scanned, IF range[2] = Latest THEN ChainHead ELSE range[2])
    /\ UNCHANGED <<chain, db, tx, pc, range, now, fee_vars, workers>>

\* The lookup evmap[sig] without the membership test: a KeyError ends the pass.
SkipLog_Raises ==
    /\ pc = "run"
    /\ li <= Len(logs)
    /\ ~Recognised(ContractOrder[ci], logs[li])
    /\ pc' = "failed"
    /\ tx' = db
    /\ last' = [NoLast EXCEPT !.event = "key_error", !.dirty = (tx # db)]
    /\ ResetPass
    /\ UNCHANGED <<chain, db, now, fee_vars, workers>>

\* `continue`: no topics, or a first topic that is not in evmap.
SkipLog ==
    /\ pc = "run"
    /\ li <= Len(logs)
    /\ ~Recognised(ContractOrder[ci], logs[li])
    /\ li' = li + 1
    /\ last' = [NoLast EXCEPT !.event = "skip"]
    /\ UNCHANGED <<chain, db, tx, pc, range, ci, logs, now, scanned, fee_vars, workers>>

\* The decode error with db.autocommit left on: the writes made so far stay.
DecodeFail_Autocommit ==
    /\ pc = "run"
    /\ li <= Len(logs)
    /\ Recognised(ContractOrder[ci], logs[li])
    /\ logs[li].malformed
    /\ pc' = "failed"
    /\ db' = tx
    /\ tx' = tx
    /\ last' = [NoLast EXCEPT !.event = "decode_error", !.dirty = (tx # db)]
    /\ ResetPass
    /\ UNCHANGED <<chain, now, fee_vars, workers>>

\* get_event_data raises: the exception leaves index_once before db.commit().
DecodeFail ==
    /\ pc = "run"
    /\ li <= Len(logs)
    /\ Recognised(ContractOrder[ci], logs[li])
    /\ logs[li].malformed
    /\ pc' = "failed"
    /\ tx' = db
    /\ last' = [NoLast EXCEPT !.event = "decode_error", !.dirty = (tx # db)]
    /\ ResetPass
    /\ UNCHANGED <<chain, db, now, fee_vars, workers>>

\* The INSERT INTO chain_events and the call of upsert_current.
StoreAndProject ==
    /\ pc = "run"
    /\ li <= Len(logs)
    /\ Recognised(ContractOrder[ci], logs[li])
    /\ ~logs[li].malformed
    /\ LET log == logs[li]
           name == EVENT_ABIS[ContractOrder[ci]][log.topics[1]]
       IN /\ tx' = StoreAndProjectLog(tx, ChainId, ContractOrder[ci], log, now)
          /\ last' = [event |-> name,
                      inserted |-> IF ChainEventConflict(tx.chain_events, ChainId, log)
                                   THEN 0 ELSE 1,
                      projected |-> TRUE,
                      rowcount |-> RowCount(tx, ChainId, name, log.args),
                      dirty |-> FALSE]
    /\ li' = li + 1
    /\ UNCHANGED <<chain, db, pc, range, ci, logs, now, scanned, fee_vars, workers>>

\* A statement or the commit fails in the storage layer (connection loss).
StorageFail ==
    /\ pc = "run"
    /\ pc' = "failed"
    /\ tx' = db
    /\ last' = [NoLast EXCEPT !.event = "storage_error", !.dirty = (tx # db)]
    /\ ResetPass
    /\ UNCHANGED <<chain, db, now, fee_vars, workers>>

\* db.commit(); cur.close(); db.close()
Commit ==
    /\ LoopDone
    /\ ci = Len(ContractOrder)
    /\ db' = tx
    /\ tx' = tx
    /\ pc' = "idle"
    /\ last' = [NoLast EXCEPT !.event = "commit"]
    /\ ResetPass
    /\ UNCHANGED <<chain, now, fee_vars, workers>>

Next ==
    \/ MineBlock
    \/ StartPass
    \/ FetchLogs
    \/ SkipLog
    \/ DecodeFail
    \/ StoreAndProject
    \/ StorageFail
    \/ Commit

Spec == Init /\ [][Next]_vars

(***************************************************************************)
(* The step-by-step pass and the function index_once agree: what a commit  *)
(* publishes is index_once of the tables the pass started from.            *)
(***************************************************************************)
CommitIsIndexOnce ==
    [][(pc = "run" /\ pc' = "idle")
          => db' = index_once(db, chain, range[1], range[2], now).t]_vars

Blocks == 1..ChainHead

Projection(t) == [deals |-> t.deals, grants |-> t.grants,
                  payouts |-> t.payouts, receipts |-> t.receipts]

(***************************************************************************)
(* C1: a log whose (chain_id, tx_hash, log_index) is already in            *)
(* chain_events is skipped for storage and for projection: whenever the    *)
(* insert of an iteration added no row, upsert_current was not called.     *)
(***************************************************************************)
C1_DuplicatesNotProjected ==
    last.projected => last.inserted = 1

(***************************************************************************)
(* C2: from any committed state, running the pass over a range twice in    *)
(* succession leaves the four projection tables as one run leaves them,    *)
(* and chain_events holds no two rows with one identity.                   *)
(***************************************************************************)
UniqueEvents(events) ==
    \A r1 \in events, r2 \in events :
        (r1.chain_id = r2.chain_id /\ r1.tx_hash = r2.tx_hash
            /\ r1.log_index = r2.log_index) => r1 = r2

C2_PassIdempotent ==
    PassIdle =>
        \A A \in Blocks, B \in Blocks :
            LET once == index_once(db, chain, A, B, now + 1)
                twice == index_once(once.t, chain, A, B, now + 2)
            IN (A <= B /\ once.ok) =>
                  /\ twice.ok
                  /\ Projection(twice.t) = Projection(once.t)
                  /\ UniqueEvents(twice.t.chain_events)

(***************************************************************************)
(* C3 as stated: from any committed state and for every split point M of   *)
(* [A, B], the pass over [A, M] followed by the pass over [M+1, B] ends in *)
(* the same chain_events and projection tables as the one pass over        *)
(* [A, B] (run in either of the two transactions' times).                  *)
(***************************************************************************)
SplitRuns(A, M, B) ==
    LET first == index_once(db, chain, A, M, now + 1)
    IN [first |-> first, second |-> index_once(first.t, chain, M + 1, B, now + 2)]

C3_SplitEqualsWhole ==
    PassIdle =>
        \A A \in Blocks, M \in Blocks, B \in Blocks :
            (A <= M /\ M < B /\ index_once(db, chain, A, B, now + 1).ok) =>
                \E ts \in {now + 1, now + 2} :
                    SplitRuns(A, M, B).second.t = index_once(db, chain, A, B, ts).t

(***************************************************************************)
(* C3 amended: when the pass over [A, B] commits, so do the two passes     *)
(* over [A, M] and [M+1, B], and they end in the same chain_events and the *)
(* same projection tables except for the updated_at column, which holds    *)
(* the time of whichever transaction wrote the row last.                   *)
(***************************************************************************)
StripTime(t) ==
    [t EXCEPT !.deals = {[r EXCEPT !.updated_at = 0] : r \in t.deals},
              !.grants = {[r EXCEPT !.updated_at = 0] : r \in t.grants}]

C3_SplitEqualsWholeButTime ==
    PassIdle =>
        \A A \in Blocks, M \in Blocks, B \in Blocks :
            LET whole == index_once(db, chain, A, B, now + 1)
                split == SplitRuns(A, M, B)
            IN (A <= M /\ M < B /\ whole.ok) =>
                  /\ split.first.ok
                  /\ split.second.ok
                  /\ StripTime(split.second.t) = StripTime(whole.t)

\* Both halves of a split write a deal or grant row, and the split ends as
\* the whole pass does but for the times.
C3_Witness ==
    /\ PassIdle
    /\ \E A \in Blocks, M \in Blocks, B \in Blocks :
        LET whole == index_once(db, chain, A, B, now + 1)
            split == SplitRuns(A, M, B)
        IN /\ A <= M /\ M < B /\ whole.ok
           /\ split.first.t # db
           /\ split.second.t # split.first.t
           /\ split.second.t # whole.t
           /\ StripTime(split.second.t) = StripTime(whole.t)

(***************************************************************************)
(* C4: a pass is all-or-nothing.  The committed tables change only at the  *)
(* commit that ends a pass, and then to the result of the whole pass over  *)
(* every contract and log of its range; a pass that fails leaves them as   *)
(* they were; and a pass whose next log is of a registered signature with  *)
(* a malformed payload can only abort, never step past that log.           *)
(***************************************************************************)
AtMalformedLog ==
    /\ pc = "run"
    /\ li <= Len(logs)
    /\ Recognised(ContractOrder[ci], logs[li])
    /\ logs[li].malformed

C4_AllOrNothing ==
    [][/\ (db' # db) =>
            /\ pc = "run" /\ pc' = "idle"
            /\ index_once(db, chain, range[1], range[2], now).ok
            /\ db' = index_once(db, chain, range[1], range[2], now).t
       /\ (pc = "run" /\ pc' = "failed") => (db' = db /\ tx' = db)
       /\ (AtMalformedLog /\ <<pc, ci, li, tx>>' # <<pc, ci, li, tx>>) =>
            (pc' = "failed" /\ db' = db)]_vars

\* A decode error has just discarded writes the pass had made.
C4_Witness ==
    /\ pc = "failed"
    /\ last.event = "decode_error"
    /\ last.dirty
    /\ tx = db

(***************************************************************************)
(* C5: the committed status of a deal never moves backward along           *)
(* FUNDED -> DELIVERED -> {SETTLED, REFUNDED}.                             *)
(***************************************************************************)
StatusRank(status) ==
    CASE status = "FUNDED" -> 1
      [] status = "DELIVERED" -> 2
      [] status \in {"SETTLED", "REFUNDED"} -> 3

C5_StatusMonotonic ==
    [][\A r \in db.deals, q \in db'.deals :
          (r.chain_id = q.chain_id /\ r.deal_id = q.deal_id)
              => StatusRank(r.status) <= StatusRank(q.status)]_vars

(***************************************************************************)
(* C6: in every state of deals_current, committed or inside a pass, a      *)
(* deal's amount is zero if and only if its status is SETTLED or REFUNDED. *)
(***************************************************************************)
C6_ZeroAmountIffTerminal ==
    \A r \in db.deals \cup tx.deals :
        (r.amount = 0) <=> (r.status \in {"SETTLED", "REFUNDED"})

(***************************************************************************)
(* C7: processing DealSettled (DealRefunded) for a deal that has a row     *)
(* sets that row's amount to 0 and its status to SETTLED (REFUNDED) and    *)
(* keeps every field earlier events wrote; and a pass whose range holds    *)
(* DealCreated, DealDelivered(evidenceHash 0xab) and DealSettled of a deal *)
(* leaves, after the DealSettled,                                          *)
(* the row {amount: 0, status: SETTLED, evidence_hash: "ab"}.              *)
(***************************************************************************)
Processing(names) ==
    /\ pc = "run"
    /\ li <= Len(logs)
    /\ Recognised(ContractOrder[ci], logs[li])
    /\ logs[li].name \in names
    /\ li' = li + 1

TerminalStatus(name) == IF name = "DealSettled" THEN "SETTLED" ELSE "REFUNDED"

\* The DealEngine logs of the running pass up to the one just handled.
Handled == IF pc = "run" /\ ci = 1 THEN SubSeq(logs, 1, li - 1) ELSE <<>>

HandledNames(d) ==
    {Handled[i].name : i \in {j \in 1..Len(Handled) :
        "dealId" \in DOMAIN Handled[j].args /\ Handled[j].args.dealId = d}}

ScenarioRow ==
    \A d \in Ids :
        (/\ Handled # <<>>
         /\ Handled[Len(Handled)].name = "DealSettled"
         /\ last.event = "DealSettled"
         /\ Handled[Len(Handled)].args.dealId = d
         /\ {"DealCreated", "DealDelivered"} \subseteq HandledNames(d))
        => \E r \in tx.deals :
              /\ r.deal_id = d /\ r.amount = 0 /\ r.status = "SETTLED"
              /\ r.evidence_hash = <<"a", "b">>
              /\ \A q \in tx.deals : q.deal_id = d => q = r

C7_SettleZeroesAndKeeps ==
    /\ [][Processing({"DealSettled", "DealRefunded"}) =>
            tx'.deals =
                {IF r.chain_id = ChainId /\ r.deal_id = logs[li].args.dealId
                 THEN [chain_id |-> r.chain_id, deal_id |-> r.deal_id,
                       sponsor |-> r.sponsor, athlete |-> r.athlete, token |-> r.token,
                       amount |-> 0, deadline |-> r.deadline,
                       terms_hash |-> r.terms_hash, evidence_hash |-> r.evidence_hash,
                       delivered_at |-> r.delivered_at,
                       status |-> TerminalStatus(logs[li].name), updated_at |-> now]
                 ELSE r : r \in tx.deals}]_vars
    /\ []ScenarioRow

\* DealCreated, DealDelivered and DealSettled of one deal handled in one pass.
C7_Witness ==
    /\ Handled # <<>>
    /\ Handled[Len(Handled)].name = "DealSettled"
    /\ last.event = "DealSettled"
    /\ {"DealCreated", "DealDelivered"} \subseteq HandledNames(Handled[Len(Handled)].args.dealId)
    /\ last.rowcount = 1

(***************************************************************************)
(* C8: payouts_current and receipts_current are write-once.  There is at   *)
(* most one row per identity; a row, once committed, never changes or      *)
(* goes; and handling an event inside a pass adds a row with the event's   *)
(* attributes when the identity has none and changes nothing otherwise.    *)
(***************************************************************************)
PayoutRow(args) ==
    [chain_id |-> ChainId, payout_id |-> args.payoutId, ref |-> BytesHex(args.ref),
     payer |-> args.payer, token |-> args.token, amount |-> args.amount,
     split_id |-> args.splitId, executed_at |-> args.at]

ReceiptRow(args) ==
    [chain_id |-> ChainId, token_id |-> args.tokenId,
     order_hash |-> BytesHex(args.orderHash), buyer |-> args.buyer,
     seller |-> args.seller, token |-> args.token, price |-> args.price,
     platform_fee |-> args.platformFee, token_uri |-> args.tokenURI]

OneRowPerId(t) ==
    /\ \A r \in t.payouts, q \in t.payouts : r.payout_id = q.payout_id => r = q
    /\ \A r \in t.receipts, q \in t.receipts : r.token_id = q.token_id => r = q

C8_WriteOnce ==
    /\ [](OneRowPerId(db) /\ OneRowPerId(tx))
    /\ [][/\ db.payouts \subseteq db'.payouts
          /\ db.receipts \subseteq db'.receipts
          /\ Processing({"PayoutExecuted"}) =>
                tx'.payouts =
                    IF \E r \in tx.payouts : r.payout_id = logs[li].args.payoutId
                    THEN tx.payouts
                    ELSE tx.payouts \cup {PayoutRow(logs[li].args)}
          /\ Processing({"ReceiptMinted"}) =>
                tx'.receipts =
                    IF \E r \in tx.receipts : r.token_id = logs[li].args.tokenId
                    THEN tx.receipts
                    ELSE tx.receipts \cup {ReceiptRow(logs[li].args)}]_vars

\* A second PayoutExecuted of a payout id, with another amount, was handled
\* and the row still has the first one's.
C8_Witness ==
    /\ pc = "run"
    /\ li > 1
    /\ last.event = "PayoutExecuted"
    /\ last.inserted = 1
    /\ last.rowcount = 0
    /\ \E r \in tx.payouts :
          /\ r.payout_id = logs[li - 1].args.payoutId
          /\ r.amount # logs[li - 1].args.amount

C10_TerminalGrantHasNoAmount ==
    \A r \in db.grants \cup tx.grants : (r.withdrawn \/ r.refunded) => r.amount = 0

\* GrantCreated was handled again for a grant already withdrawn or refunded.
C10_Witness ==
    /\ pc = "run"
    /\ li > 1
    /\ last.event = "GrantCreated"
    /\ last.inserted = 0
    /\ \E r \in tx.grants :
          /\ r.grant_id = logs[li - 1].args.grantId
          /\ (r.withdrawn \/ r.refunded)
          /\ r.amount = 0

(***************************************************************************)
(* C11: when a pass handles a GrantCreated log that an earlier pass        *)
(* already stored, it adds no chain_events row and the grant's row keeps   *)
(* sponsor, beneficiary, token, amount, unlock_time, terms_hash, attested, *)
(* attestation_hash, withdrawn and refunded as they were before.           *)
(***************************************************************************)
GrantFields(r) ==
    [chain_id |-> r.chain_id, grant_id |-> r.grant_id, sponsor |-> r.sponsor,
     beneficiary |-> r.beneficiary, token |-> r.token, amount |-> r.amount,
     unlock_time |-> r.unlock_time, terms_hash |-> r.terms_hash,
     attested |-> r.attested, attestation_hash |-> r.attestation_hash,
     withdrawn |-> r.withdrawn, refunded |-> r.refunded]

Stored(events, log) ==
    \E r \in events :
        /\ r.chain_id = ChainId
        /\ r.tx_hash = log.transactionHash
        /\ r.log_index = log.logIndex

C11_ReplayKeepsGrant ==
    [][(Processing({"GrantCreated"}) /\ Stored(db.chain_events, logs[li])) =>
          /\ tx'.chain_events = tx.chain_events
          /\ \E r \in tx.grants : r.grant_id = logs[li].args.grantId
          /\ {GrantFields(r) : r \in tx'.grants} = {GrantFields(r) : r \in tx.grants}
          /\ pc' = "run"]_vars

\* GrantCreated was handled again for a grant that had been attested since.
C11_Witness ==
    /\ pc = "run"
    /\ li > 1
    /\ last.event = "GrantCreated"
    /\ last.inserted = 0
    /\ Stored(db.chain_events, logs[li - 1])
    /\ \E r \in tx.grants :
          /\ r.grant_id = logs[li - 1].args.grantId
          /\ r.attested
          /\ r.attestation_hash # NULL

(***************************************************************************)
(* C12: a log with no topics, or whose first topic is not a signature      *)
(* registered for the contract it was fetched from, is skipped: the pass   *)
(* steps to the next log with the tables of its transaction untouched, no  *)
(* call of upsert_current and no error, and no chain_events row ever has   *)
(* such a log's identity.                                                  *)
(***************************************************************************)
AtUnregisteredLog ==
    /\ pc = "run"
    /\ li <= Len(logs)
    /\ ~Recognised(ContractOrder[ci], logs[li])

Unregistered(ch) ==
    {l \in {ch[i] : i \in 1..Len(ch)} :
        \/ l.topics = <<>>
        \/ \A c \in ContractNames :
              l.address = to_checksum_address(c) => l.topics[1] \notin DOMAIN EVENT_ABIS[c]}

C12_UnregisteredSkipped ==
    /\ [][(AtUnregisteredLog /\ <<ci, li, tx>>' # <<ci, li, tx>>) =>
            \/ /\ li' = li + 1
               /\ tx' = tx
               /\ pc' = "run"
               /\ <<ci, logs, db>>' = <<ci, logs, db>>
               /\ ~last'.projected
               /\ last'.inserted = 0
            \/ last'.event = "storage_error"]_vars
    /\ [](\A l \in Unregistered(chain) :
            ~Stored(db.chain_events, l) /\ ~Stored(tx.chain_events, l))

\* A pass stepped over an unregistered log and handled the log after it.
C12_Witness ==
    /\ pc = "run"
    /\ li > 2
    /\ ~Recognised(ContractOrder[ci], logs[li - 2])
    /\ last.projected
    /\ last.inserted = 1

(***************************************************************************)
(* C15: handling DealDelivered, DealSettled, DealRefunded, GrantAttested,  *)
(* GrantWithdrawn or GrantRefunded for an identity that has no row in the  *)
(* projection table affects zero rows and creates none, raises nothing,    *)
(* stores the event's chain_events row, and the pass goes on to the next   *)
(* log and can commit.                                                     *)
(***************************************************************************)
UpdateEvents ==
    {"DealDelivered", "DealSettled", "DealRefunded",
     "GrantAttested", "GrantWithdrawn", "GrantRefunded"}

HasTarget(t, log) ==
    IF "dealId" \in DOMAIN log.args
    THEN \E r \in t.deals : r.chain_id = ChainId /\ r.deal_id = log.args.dealId
    ELSE \E r \in t.grants : r.chain_id = ChainId /\ r.grant_id = log.args.grantId

C15_UpdateWithoutRowIsNoop ==
    [][(Processing(UpdateEvents) /\ ~HasTarget(tx, logs[li])) =>
          /\ Projection(tx') = Projection(tx)
          /\ Stored(tx'.chain_events, logs[li])
          /\ last'.rowcount = 0
          /\ pc' = "run"
          /\ <<ci, logs, db>>' = <<ci, logs, db>>]_vars

\* A pass that handled an update event of an identity with no row has
\* committed: the event is stored and the identity still has no row.
C15_Witness ==
    /\ pc = "idle"
    /\ last.event = "commit"
    /\ \E i \in 1..Len(chain) :
          /\ chain[i].name \in UpdateEvents
          /\ Stored(db.chain_events, chain[i])
          /\ ~HasTarget(db, chain[i])

(***************************************************************************)
(* C17: within one pass, the logs of one on-chain transaction are stored   *)
(* and projected in strictly increasing log_index order, also when the     *)
(* transaction emitted logs from more than one monitored contract.         *)
(***************************************************************************)
AllEvents ==
    UNION {EventNames(c) : c \in ContractNames}

\* The chain_events rows the running pass has added to its transaction.
StoredByPass == tx.chain_events \ db.chain_events

C17_TransactionOrder ==
    [][Processing(AllEvents) =>
          \A r \in StoredByPass :
              r.tx_hash = logs[li].transactionHash
                  => r.log_index < logs[li].logIndex]_vars

(***************************************************************************)
(* C17, amended: within one pass, the logs of one on-chain transaction     *)
(* that were fetched from one monitored contract are stored and projected  *)
(* in strictly increasing log_index order; the logs the transaction        *)
(* emitted from another contract are handled in that contract's turn.      *)
(***************************************************************************)
C17_TransactionOrderPerContract ==
    [][Processing(AllEvents) =>
          /\ \A j \in 1..(li - 1) :
                logs[j].transactionHash = logs[li].transactionHash
                    => logs[j].logIndex < logs[li].logIndex
          /\ \A r \in StoredByPass :
                (/\ r.tx_hash = logs[li].transactionHash
                 /\ r.contract_address = to_checksum_address(ContractOrder[ci]))
                    => r.log_index < logs[li].logIndex]_vars

\* Two logs of one transaction and one contract have been handled, the
\* second of them new to chain_events.
C17_Witness ==
    /\ pc = "run"
    /\ li > 2
    /\ logs[li - 1].transactionHash = logs[li - 2].transactionHash
    /\ Recognised(ContractOrder[ci], logs[li - 2])
    /\ last.projected
    /\ last.inserted = 1

(***************************************************************************)
(* C18: the order in which a pass goes through the contracts does not      *)
(* matter: for a pass started after a commit, or first, over any range,    *)
(* every permutation of the contract order gives the same outcome, the     *)
(* same chain_events and the same four projection tables.                  *)
(***************************************************************************)
ContractOrders ==
    {p \in [1..Len(ContractOrder) -> ContractNames] :
        \A c \in ContractNames : \E i \in 1..Len(ContractOrder) : p[i] = c}

index_once_in_order(t, ch, from_block, to_block, names, ts) ==
    LET r == RunContracts(t, ch, from_block, to_block, names, ts)
    IN IF r.ok THEN r ELSE [ok |-> FALSE, t |-> t]

\* The outcomes of the pass StartPass may start now, one per contract order.
Outcomes(A, B) ==
    {index_once_in_order(db, chain, A, B, p, now + 1) : p \in ContractOrders}

C18_ContractOrderIrrelevant ==
    (pc = "idle" /\ now < MaxPasses) =>
        \A A \in Blocks, B \in Blocks :
            A <= B => Outcomes(A, B) = {index_once(db, chain, A, B, now + 1)}

\* Logs of two contracts are on the chain, both already handled by a
\* committed pass, so that a further pass handles both again.
C18_Witness ==
    /\ pc = "idle"
    /\ now < MaxPasses
    /\ \E i \in 1..Len(chain), j \in 1..Len(chain) :
          /\ chain[i].address # chain[j].address
          /\ Stored(db.chain_events, chain[i])
          /\ Stored(db.chain_events, chain[j])
          /\ chain[i].blockNumber = chain[j].blockNumber

(***************************************************************************)
(* C19: the projection tables are a fold of the stored log: in every       *)
(* committed state, the four Current tables equal what the projection      *)
(* rules give when applied, from empty tables, to the rows of chain_events *)
(* in chain order (block, then log_index).  updated_at, the time of the    *)
(* writing transaction, is left out of the comparison.                     *)
(***************************************************************************)
DigitValue(c) == CHOOSE d \in 0..15 : HexDigits[d + 1] = c

RECURSIVE ParseDec(_)
\* int(s) of a string of decimal digits.
ParseDec(s) ==
    IF Len(s) = 1 THEN DigitValue(s[1])
    ELSE ParseDec(SubSeq(s, 1, Len(s) - 1)) * 10 + DigitValue(s[Len(s)])

RECURSIVE HexBytes(_)
\* bytes.fromhex(s)
HexBytes(s) ==
    IF s = <<>> THEN <<>>
    ELSE <<DigitValue(s[1]) * 16 + DigitValue(s[2])>> \o HexBytes(SubSeq(s, 3, Len(s)))

\* The event arguments read back from the decoded column of a row.
ArgsOfDecoded(decoded) ==
    [k \in DOMAIN decoded |->
        IF k \in BytesFields THEN HexBytes(decoded[k])
        ELSE IF k \in StrFields THEN decoded[k]
        ELSE ParseDec(decoded[k])]

RECURSIVE ChainOrder(_)
\* The rows of a set of chain_events rows by block, then log_index.
ChainOrder(events) ==
    IF events = {} THEN <<>>
    ELSE LET first == CHOOSE r \in events :
                        \A q \in events :
                            \/ r.block_number < q.block_number
                            \/ /\ r.block_number = q.block_number
                               /\ r.log_index <= q.log_index
         IN <<first>> \o ChainOrder(events \ {first})

RECURSIVE FoldEvents(_, _)
FoldEvents(t, rows) ==
    IF rows = <<>> THEN t
    ELSE FoldEvents(upsert_current(t, Head(rows).chain_id, Head(rows).event_name,
                                   ArgsOfDecoded(Head(rows).decoded), 0),
                    Tail(rows))

C19_TablesAreFoldOfLog ==
    PassIdle =>
        Projection(StripTime(db))
            = Projection(FoldEvents(EmptyTables, ChainOrder(db.chain_events)))

(***************************************************************************)
(* C20: chain_events is append-only with a unique identity: no two rows    *)
(* share (chain_id, tx_hash, log_index); a committed row never changes and *)
(* never goes, and neither does a row of a running transaction; handling   *)
(* a log whose key is there adds nothing and raises nothing, and handling  *)
(* a log whose key is new adds exactly the row of that log.                *)
(***************************************************************************)
C20_ChainEventsAppendOnly ==
    /\ [](UniqueEvents(db.chain_events) /\ UniqueEvents(tx.chain_events))
    /\ [][/\ db.chain_events \subseteq db'.chain_events
          /\ (pc = "run" /\ pc' = "run") => tx.chain_events \subseteq tx'.chain_events
          /\ Processing(AllEvents) =>
                IF Stored(tx.chain_events, logs[li])
                THEN tx'.chain_events = tx.chain_events /\ pc' = "run"
                ELSE \E r \in tx'.chain_events :
                        /\ r.chain_id = ChainId
                        /\ r.tx_hash = logs[li].transactionHash
                        /\ r.log_index = logs[li].logIndex
                        /\ r.block_number = logs[li].blockNumber
                        /\ r.event_name = logs[li].name
                        /\ r \notin tx.chain_events
                        /\ tx'.chain_events = tx.chain_events \cup {r}]_vars

\* A pass has met a key that is in chain_events and gone on, and has added
\* a row for a key that is new.
C20_Witness ==
    /\ pc = "run"
    /\ li > 2
    /\ Stored(db.chain_events, logs[li - 2])
    /\ ~Stored(db.chain_events, logs[li - 1])
    /\ Stored(tx.chain_events, logs[li - 1])
    /\ last.inserted = 1

(***************************************************************************)
(* The fee split of src/python/security/test_fee_math.py: the test draws   *)
(* an amount and a rate and computes fee and net.                          *)
(***************************************************************************)
FeeAmounts == (1..MaxFeeAmount) \cup {BPS - 1, BPS, BPS + 1, MaxFeeAmount * BPS + 1}

FeeRates == 0..BPS

\* net taken as its own floored share instead of the remainder.
fee_split_BothFloored(a, bps) ==
    [fee |-> (a * bps) \div BPS, net |-> (a * (BPS - bps)) \div BPS]

\* fee = (amount * fee_bps) // BPS; net = amount - fee
fee_split(a, bps) ==
    LET f == (a * bps) \div BPS
    IN [fee |-> f, net |-> a - f]

InitFee ==
    /\ chain = <<>>
    /\ db = EmptyTables
    /\ tx = EmptyTables
    /\ pc = "idle"
    /\ range = <<0, 0>>
    /\ ci = 0
    /\ logs = <<>>
    /\ li = 0
    /\ now = 0
    /\ last = NoLast
    /\ scanned = <<>>
    /\ amount \in FeeAmounts
    /\ fee_bps \in FeeRates
    /\ fee = -1
    /\ net = -1
    /\ workers = [w \in Workers |-> IdleWorker]

\* The body of the test up to its assertions.
test_fee_split_never_negative ==
    /\ fee = -1
    /\ fee' = fee_split(amount, fee_bps).fee
    /\ net' = fee_split(amount, fee_bps).net
    /\ UNCHANGED <<chain, db, tx, pc, range, ci, logs, li, now, last, scanned,
                   amount, fee_bps, workers>>

NextFee == test_fee_split_never_negative

SpecFee == InitFee /\ [][NextFee]_vars

(***************************************************************************)
(* C14: for every amount >= 1 and every fee_bps in 0..10000, with          *)
(* fee = (amount * fee_bps) div 10000 and net = amount - fee:              *)
(* 0 <= fee <= amount, 0 <= net <= amount and fee + net = amount.          *)
(***************************************************************************)
C14_FeeSplit ==
    (fee # -1) =>
        /\ amount >= 1 /\ fee_bps \in 0..10000
        /\ fee = (amount * fee_bps) \div 10000
        /\ 0 <= fee /\ fee <= amount
        /\ 0 <= net /\ net <= amount
        /\ fee + net = amount

\* A split in which the division rounded down and both parts are positive.
C14_Witness ==
    /\ fee # -1
    /\ (amount * fee_bps) % BPS # 0
    /\ fee > 0
    /\ net > 0
    /\ amount > BPS

(***************************************************************************)
(* The indexer as __main__ runs it by default: TO_BLOCK is "latest", and   *)
(* index_once hands that word to every get_logs call, which the node       *)
(* answers up to the head it has at that moment.                           *)
(***************************************************************************)
StartPassLatest ==
    /\ PassIdle
    /\ now < MaxPasses
    /\ \E from_block \in 0..ChainHead :
        range' = <<from_block, Latest>>
    /\ pc' = "run"
    /\ tx' = db
    /\ now' = now + 1
    /\ ci' = 0
    /\ logs' = <<>>
    /\ li' = 1
    /\ last' = NoLast
    /\ scanned' = <<>>
    /\ UNCHANGED <<chain, db, fee_vars, workers>>

NextLatest ==
    \/ MineBlock
    \/ StartPassLatest
    \/ FetchLogs
    \/ SkipLog
    \/ DecodeFail
    \/ StoreAndProject
    \/ StorageFail
    \/ Commit

SpecLatest == Init /\ [][NextLatest]_vars

(***************************************************************************)
(* C16: with toBlock "latest", the upper block is fixed once per pass:     *)
(* every contract of the pass is scanned up to the same block, also when   *)
(* the chain head advances while the pass is running.                      *)
(***************************************************************************)
C16_LatestResolvedOnce ==
    \A i \in DOMAIN scanned, j \in DOMAIN scanned : scanned[i] = scanned[j]

(***************************************************************************)
(* Two passes at once.  Each worker is a process running index_once on a   *)
(* connection of its own against the one database.  The database is        *)
(* PostgreSQL at its default isolation level: a statement sees the         *)
(* committed rows and the rows its own transaction wrote; a write on an    *)
(* identity another open transaction has written waits until that          *)
(* transaction ends; an UPDATE does not see, and does not wait for, a row  *)
(* another open transaction inserted.  A numeric range lies below the      *)
(* chain head, so the logs of all contracts are what get_logs will return  *)
(* whenever it is called; they are taken when the worker starts, and the   *)
(* unrecognised ones, which the loop steps over, are left out.  A worker   *)
(* runs one pass, the worker that starts first is called a, and the range  *)
(* of b has a block in common with the range of a.                         *)
(***************************************************************************)
TableNames == {"chain_events", "deals", "grants", "payouts", "receipts"}

RowKey(T, r) ==
    CASE T = "chain_events" -> <<r.chain_id, r.tx_hash, r.log_index>>
      [] T = "deals" -> <<r.chain_id, r.deal_id>>
      [] T = "grants" -> <<r.chain_id, r.grant_id>>
      [] T = "payouts" -> <<r.chain_id, r.payout_id>>
      [] T = "receipts" -> <<r.chain_id, r.token_id>>

Keys(T, rows) == {RowKey(T, r) : r \in rows}

\* The tables with the rows `writes` on top of the rows of `base`.
Overlay(base, writes) ==
    [T \in TableNames |->
        {r \in base[T] : RowKey(T, r) \notin Keys(T, writes[T])} \cup writes[T]]

\* What a statement of worker w sees.
View(w) == Overlay(db, workers[w].writes)

LockedByOther(w, T, k) ==
    \E v \in Workers \ {w} : k \in Keys(T, workers[v].writes[T])

TargetTable(event_name) ==
    CASE event_name \in EventNames("DealEngine") -> "deals"
      [] event_name \in EventNames("DeferredVault") -> "grants"
      [] event_name = "PayoutExecuted" -> "payouts"
      [] event_name = "ReceiptMinted" -> "receipts"

TargetKey(event_name, args) ==
    CASE event_name \in EventNames("DealEngine") -> <<ChainId, args.dealId>>
      [] event_name \in EventNames("DeferredVault") -> <<ChainId, args.grantId>>
      [] event_name = "PayoutExecuted" -> <<ChainId, args.payoutId>>
      [] event_name = "ReceiptMinted" -> <<ChainId, args.tokenId>>

\* The statement of upsert_current for this event has to wait.
ProjectionWaits(w, event_name, args) ==
    LET T == TargetTable(event_name)
        k == TargetKey(event_name, args)
    IN /\ LockedByOther(w, T, k)
       /\ (event_name \in UpdateEvents) => k \in Keys(T, db[T])

RECURSIVE AllLogs(_, _, _, _)
AllLogs(ch, from_block, to_block, names) ==
    IF names = <<>> THEN <<>>
    ELSE LET c == Head(names)
             ls == SelectSeq(get_logs(ch, from_block, to_block, to_checksum_address(c)),
                             LAMBDA l : Recognised(c, l))
         IN [i \in 1..Len(ls) |-> [contract |-> c, log |-> ls[i]]]
            \o AllLogs(ch, from_block, to_block, Tail(names))

Started == {w \in Workers : workers[w].pc # "idle"}

\* The blocks mined before the first worker starts; the workers' ranges lie
\* below the head, so later blocks make no difference to them.
MineBefore ==
    /\ Started = {}
    /\ MineBlock

WStart ==
    \E w \in Workers :
        /\ workers[w].pc = "idle"
        /\ (w = "b") => ("a" \in Started)
        /\ \E from_block \in 1..ChainHead, to_block \in 1..ChainHead :
            /\ from_block <= to_block
            /\ (w = "b") => /\ from_block <= workers["a"].range[2]
                            /\ workers["a"].range[1] <= to_block
            /\ workers' = [workers EXCEPT ![w] =
                  [pc |-> "insert",
                   range |-> <<from_block, to_block>>,
                   logs |-> AllLogs(chain, from_block, to_block, ContractOrder),
                   li |-> 1,
                   ts |-> Cardinality(Started) + 1,
                   writes |-> EmptyTables]]
        /\ UNCHANGED <<chain, db, tx, pc, range, ci, logs, li, now, last, scanned, fee_vars>>

AtLog(w) ==
    /\ workers[w].pc \in {"insert", "project"}
    /\ workers[w].li <= Len(workers[w].logs)

\* get_event_data raises in worker w: its transaction is rolled back.
WDecodeFail ==
    \E w \in Workers :
        /\ AtLog(w)
        /\ workers[w].pc = "insert"
        /\ workers[w].logs[workers[w].li].log.malformed
        /\ workers' = [workers EXCEPT ![w] = [IdleWorker EXCEPT !.pc = "failed"]]
        /\ UNCHANGED <<chain, db, tx, pc, range, ci, logs, li, now, last, scanned, fee_vars>>

\* INSERT INTO chain_events ... ON CONFLICT DO NOTHING in worker w.
WInsert ==
    \E w \in Workers :
        /\ AtLog(w)
        /\ workers[w].pc = "insert"
        /\ LET e == workers[w].logs[workers[w].li]
               sig == e.log.topics[1]
               seen == View(w).chain_events
               after == InsertChainEvent(seen, ChainId, to_checksum_address(e.contract),
                                         sig, EVENT_ABIS[e.contract][sig], e.log)
           IN /\ ~e.log.malformed
              /\ ~LockedByOther(w, "chain_events",
                                <<ChainId, e.log.transactionHash, e.log.logIndex>>)
              /\ workers' = [workers EXCEPT
                    ![w].pc = "project",
                    ![w].writes.chain_events = @ \cup (after \ seen)]
        /\ UNCHANGED <<chain, db, tx, pc, range, ci, logs, li, now, last, scanned, fee_vars>>

\* upsert_current(cur, CHAIN_ID, abi["name"], decoded["args"]) in worker w.
WProject ==
    \E w \in Workers :
        /\ AtLog(w)
        /\ workers[w].pc = "project"
        /\ LET e == workers[w].logs[workers[w].li]
               name == EVENT_ABIS[e.contract][e.log.topics[1]]
               seen == View(w)
               after == upsert_current(seen, ChainId, name, e.log.args, workers[w].ts)
           IN /\ ~ProjectionWaits(w, name, e.log.args)
              /\ workers' = [workers EXCEPT
                    ![w].pc = "insert",
                    ![w].li = @ + 1,
                    ![w].writes = Overlay(@, [T \in TableNames |-> after[T] \ seen[T]])]
        /\ UNCHANGED <<chain, db, tx, pc, range, ci, logs, li, now, last, scanned, fee_vars>>

\* The connection of worker w fails, or the database ends its transaction
\* to break a deadlock.
WStorageFail ==
    \E w \in Workers :
        /\ workers[w].pc \in {"insert", "project"}
        /\ workers' = [workers EXCEPT ![w] = [IdleWorker EXCEPT !.pc = "failed"]]
        /\ UNCHANGED <<chain, db, tx, pc, range, ci, logs, li, now, last, scanned, fee_vars>>

\* db.commit() in worker w.
WCommit ==
    \E w \in Workers :
        /\ workers[w].pc = "insert"
        /\ workers[w].li > Len(workers[w].logs)
        /\ db' = Overlay(db, workers[w].writes)
        /\ workers' = [workers EXCEPT ![w].pc = "done", ![w].writes = EmptyTables]
        /\ UNCHANGED <<chain, tx, pc, range, ci, logs, li, now, last, scanned, fee_vars>>

NextConcurrent ==
    \/ MineBefore
    \/ WStart
    \/ WDecodeFail
    \/ WInsert
    \/ WProject
    \/ WStorageFail
    \/ WCommit

SpecConcurrent == Init /\ [][NextConcurrent]_vars

(***************************************************************************)
(* C13: two passes over the same or overlapping ranges that run at once    *)
(* end, for every interleaving, in the chain_events and projection tables  *)
(* that running them one after the other gives, with no two chain_events   *)
(* rows of one identity and no event projected twice.  updated_at is left  *)
(* out of the comparison.                                                  *)
(***************************************************************************)
BothCommitted == \A w \in Workers : workers[w].pc = "done"

\* The tables after the pass of worker v and then the pass of worker w, alone.
OneAfterTheOther(v, w) ==
    LET first == index_once(EmptyTables, chain, workers[v].range[1],
                            workers[v].range[2], workers[v].ts)
    IN index_once(first.t, chain, workers[w].range[1], workers[w].range[2],
                  workers[w].ts).t

\* The identities of the logs for which worker w has called upsert_current.
ProjectedBy(w) ==
    {<<workers[w].logs[j].log.transactionHash, workers[w].logs[j].log.logIndex>> :
        j \in 1..(workers[w].li - 1)}

AsTables(f) ==
    [chain_events |-> f["chain_events"], deals |-> f["deals"], grants |-> f["grants"],
     payouts |-> f["payouts"], receipts |-> f["receipts"]]

\* The two ranges have a block in common.
Overlapping ==
    /\ workers["a"].range[1] <= workers["b"].range[2]
    /\ workers["b"].range[1] <= workers["a"].range[2]

SameAsSerial ==
    (BothCommitted /\ Overlapping) =>
        \E v \in Workers, w \in Workers :
            /\ v # w
            /\ StripTime(AsTables(db)) = StripTime(OneAfterTheOther(v, w))

C13_ConcurrentPassesSafe ==
    (BothCommitted /\ Overlapping) =>
        /\ SameAsSerial
        /\ UniqueEvents(db.chain_events)
        /\ ProjectedBy("a") \cap ProjectedBy("b") = {}

====
